---- MODULE Spec2Model ----
(***************************************************************************)
(* sjtu::priority_queue<T, Compare> (src/src/priority_queue.hpp): a heap   *)
(* ordered binary tree of LeftistNode objects living in free store, a      *)
(* cached element count `capacity` and a `root` pointer per queue object.  *)
(* Node addresses are 1..MaxNodes, nullptr is NULL; `store` maps every     *)
(* address that currently holds a node (allocated, not deleted) to the     *)
(* node's fields.                                                          *)
(***************************************************************************)
EXTENDS Integers, Sequences, FiniteSets, TLC

\* Bounds of the model: node addresses and element values.
MaxNodes == 4
MaxVal == 2

\* nullptr
NULL == 0

Nodes == 1..MaxNodes
\* the queue objects: the receiver and the argument of a call
Heaps == {1, 2}
Values == 1..MaxVal
Ptr == Nodes \cup {NULL}

VARIABLES
  store,     \* free store: address -> [value, ls, rs], for the live nodes
  root,      \* root[h]: the member `root` of queue object h
  capacity,  \* capacity[h]: the member `capacity` of queue object h
  alive,     \* the queue objects that are constructed and not yet destroyed
  last,      \* the last call made: which method, on which object, its outcome
  pc,        \* position of the extract-all driver
  pushed,    \* extract-all driver: the values pushed so far, in order
  out,       \* extract-all driver: the values read by top() so far, in order
  stack      \* the calls in progress when a call is followed step by step

vars == <<store, root, capacity, alive, last, pc, pushed, out, stack>>
heapVars == <<store, root, capacity, alive>>
driverVars == <<pc, pushed, out, stack>>

----------------------------------------------------------------------------
(* LeftistNode and the friend functions *)

\* Compare{} with the default std::less<T>
Compare(x, y) == x < y

\* operator<(const LeftistNode &, const LeftistNode &)
NodeLess(st, a, b) == Compare(st[a].value, st[b].value)

\* LeftistNode(T _value, LeftistNode *_ls, LeftistNode *_rs)
LeftistNode(v, l, r) == [value |-> v, ls |-> l, rs |-> r]

\* `new LeftistNode(...)` placed at address n
New(st, n, v) == (n :> LeftistNode(v, NULL, NULL)) @@ st

\* `delete p`
Delete(st, n) == [x \in DOMAIN st \ {n} |-> st[x]]

\* MergeNode without `if (*a < *b) std::swap(a, b)`: a always stays the root
RECURSIVE MergeNodeNoSwap(_, _, _)
MergeNodeNoSwap(st, a, b) ==
  IF a = NULL THEN [st |-> st, node |-> b]
  ELSE IF b = NULL THEN [st |-> st, node |-> a]
  ELSE LET r  == MergeNodeNoSwap(st, st[a].rs, b)
           s1 == [r.st EXCEPT ![a].rs = r.node]
           s2 == [s1 EXCEPT ![a].ls = s1[a].rs, ![a].rs = s1[a].ls]
       IN [st |-> s2, node |-> a]

\* MergeNode with `a->rs = b` in place of `a->rs = MergeNode(a->rs, b)`
MergeNodeDrop(st, a, b) ==
  IF a = NULL THEN [st |-> st, node |-> b]
  ELSE IF b = NULL THEN [st |-> st, node |-> a]
  ELSE LET sw == NodeLess(st, a, b)
           a1 == IF sw THEN b ELSE a
           b1 == IF sw THEN a ELSE b
           s1 == [st EXCEPT ![a1].rs = b1]
           s2 == [s1 EXCEPT ![a1].ls = s1[a1].rs, ![a1].rs = s1[a1].ls]
       IN [st |-> s2, node |-> a1]

\* MergeNode with `if (!b) return b` in place of `if (!b) return a`
RECURSIVE MergeNodeBadBase(_, _, _)
MergeNodeBadBase(st, a, b) ==
  IF a = NULL THEN [st |-> st, node |-> b]
  ELSE IF b = NULL THEN [st |-> st, node |-> b]
  ELSE LET sw == NodeLess(st, a, b)
           a1 == IF sw THEN b ELSE a
           b1 == IF sw THEN a ELSE b
           r  == MergeNodeBadBase(st, st[a1].rs, b1)
           s1 == [r.st EXCEPT ![a1].rs = r.node]
           s2 == [s1 EXCEPT ![a1].ls = s1[a1].rs, ![a1].rs = s1[a1].ls]
       IN [st |-> s2, node |-> a1]

\* MergeNode(a, b): result is the store after the call and the pointer returned
\* MergeNode with `if (!(*b < *a))` in place of `if (*a < *b)`: equivalent
\* roots are swapped too
RECURSIVE MergeNodeSwapTies(_, _, _)
MergeNodeSwapTies(st, a, b) ==
  IF a = NULL THEN [st |-> st, node |-> b]
  ELSE IF b = NULL THEN [st |-> st, node |-> a]
  ELSE LET sw == ~NodeLess(st, b, a)
           a1 == IF sw THEN b ELSE a
           b1 == IF sw THEN a ELSE b
           r  == MergeNodeSwapTies(st, st[a1].rs, b1)
           s1 == [r.st EXCEPT ![a1].rs = r.node]
           s2 == [s1 EXCEPT ![a1].ls = s1[a1].rs, ![a1].rs = s1[a1].ls]
       IN [st |-> s2, node |-> a1]

RECURSIVE MergeNode(_, _, _)
MergeNode(st, a, b) ==
  IF a = NULL THEN [st |-> st, node |-> b]
  ELSE IF b = NULL THEN [st |-> st, node |-> a]
  ELSE LET sw == NodeLess(st, a, b)
           a1 == IF sw THEN b ELSE a
           b1 == IF sw THEN a ELSE b
           r  == MergeNode(st, st[a1].rs, b1)
           s1 == [r.st EXCEPT ![a1].rs = r.node]
           s2 == [s1 EXCEPT ![a1].ls = s1[a1].rs, ![a1].rs = s1[a1].ls]
       IN [st |-> s2, node |-> a1]

\* ClearNode without `ClearNode(now->ls), ClearNode(now->rs)`: only the node
\* itself is deleted
ClearNodeShallow(st, now) ==
  IF now = NULL THEN st ELSE Delete(st, now)

\* ClearNode(now): the store after the call (the caller's pointer becomes NULL)
RECURSIVE ClearNode(_, _)
ClearNode(st, now) ==
  IF now = NULL THEN st
  ELSE LET s1 == [ClearNode(st, st[now].ls) EXCEPT ![now].ls = NULL]
           s2 == [ClearNode(s1, s1[now].rs) EXCEPT ![now].rs = NULL]
       IN Delete(s2, now)

\* copy that shares the source tree: `one = another`
copyShallow(st, one, another, f) == [st |-> st, one |-> another]

\* copy(one, another): `one` is the value the reference holds on entry, f gives
\* the address `new` returns for the copy of each source node; result is the
\* store after the call and the value the reference holds on return
RECURSIVE copy(_, _, _, _)
copy(st, one, another, f) ==
  IF another = NULL THEN [st |-> st, one |-> one]
  ELSE LET n  == f[another]
           s0 == New(st, n, st[another].value)
           l  == copy(s0, s0[n].ls, s0[another].ls, f)
           s1 == [l.st EXCEPT ![n].ls = l.one]
           r  == copy(s1, s1[n].rs, s1[another].rs, f)
           s2 == [r.st EXCEPT ![n].rs = r.one]
       IN [st |-> s2, one |-> n]

----------------------------------------------------------------------------
(* Reading the tree *)

Kids(st, n) == {st[n].ls, st[n].rs} \ {NULL}

RECURSIVE ReachFrom(_, _)
ReachFrom(st, S) ==
  LET T == S \cup UNION {Kids(st, n) : n \in S \cap DOMAIN st}
  IN IF T = S THEN S ELSE ReachFrom(st, T)

\* the nodes reachable from pointer p
Reach(st, p) == IF p = NULL THEN {} ELSE ReachFrom(st, {p})

\* the part of the store reachable from p: nodes, values and links
Tree(st, p) == [n \in Reach(st, p) \cap DOMAIN st |-> st[n]]

\* how many reachable nodes hold value v
Count(st, p, v) == Cardinality({n \in Reach(st, p) : st[n].value = v})

\* the one-to-one maps from S into T
RECURSIVE Injections(_, _)
Injections(S, T) ==
  IF S = {} THEN {<< >>}
  ELSE LET x == CHOOSE y \in S : TRUE
       IN UNION {{(x :> t) @@ g : g \in Injections(S \ {x}, T \ {t})} : t \in T}

\* f gives each node under p an address of its own that is free in st
IsPlacement(f, st, p) ==
  /\ DOMAIN f = Reach(st, p)
  /\ \A x \in DOMAIN f : f[x] \in Nodes \ DOMAIN st
  /\ \A x, y \in DOMAIN f : x # y => f[x] # f[y]

Free(st) == Nodes \ DOMAIN st

----------------------------------------------------------------------------
(* priority_queue members *)

\* The record of a call: method, receiver, argument queue (0: none), argument
\* value (0: none), exception raised ("none": returned normally) and value
\* returned (0: none; for a call that swallowed an exception of the comparator,
\* the number of comparisons that had returned).
Call(op, h, o, e, exc, val) ==
  [op |-> op, h |-> h, other |-> o, arg |-> e, exc |-> exc, val |-> val]

\* size()
size(h) == capacity[h]

\* empty() off by one: `capacity <= 1`
emptyOffByOne(h) == capacity[h] <= 1

\* empty()
empty(h) == capacity[h] = 0

Init ==
  /\ store = << >>
  /\ root = [h \in Heaps |-> NULL]
  /\ capacity = [h \in Heaps |-> 0]
  /\ alive = Heaps
  /\ last = Call("init", 0, 0, 0, "none", 0)
  /\ pc = "fill"
  /\ pushed = << >>
  /\ out = << >>
  /\ stack = << >>

\* root->value
TopOf(st, p) == st[p].value

\* top()
top(h) ==
  /\ h \in alive
  /\ IF empty(h)
       THEN last' = Call("top", h, 0, 0, "container_is_empty", 0)
       ELSE last' = Call("top", h, 0, 0, "none", TopOf(store, root[h]))
  /\ UNCHANGED heapVars

\* push(e), with n the address of the node `new` returns
push(h, e, n) ==
  /\ h \in alive
  /\ n \in Free(store)
  /\ LET m == MergeNode(New(store, n, e), root[h], n)
     IN /\ store' = m.st
        /\ root' = [root EXCEPT ![h] = m.node]
  /\ capacity' = [capacity EXCEPT ![h] = @ + 1]
  /\ last' = Call("push", h, 0, e, "none", 0)
  /\ UNCHANGED alive

\* pop() without `capacity = siz`
popKeepsCapacity(h) ==
  /\ h \in alive
  /\ IF empty(h)
       THEN /\ last' = Call("pop", h, 0, 0, "container_is_empty", 0)
            /\ UNCHANGED heapVars
       ELSE LET before == root[h]
                m == MergeNode(store, store[before].ls, store[before].rs)
            IN /\ root' = [root EXCEPT ![h] = m.node]
               /\ store' = Delete(m.st, before)
               /\ last' = Call("pop", h, 0, 0, "none", 0)
               /\ UNCHANGED <<capacity, alive>>

\* pop() without `delete before`
popNoDelete(h) ==
  /\ h \in alive
  /\ IF empty(h)
       THEN /\ last' = Call("pop", h, 0, 0, "container_is_empty", 0)
            /\ UNCHANGED heapVars
       ELSE LET siz == capacity[h] - 1
                before == root[h]
                m == MergeNode(store, store[before].ls, store[before].rs)
            IN /\ root' = [root EXCEPT ![h] = m.node]
               /\ capacity' = [capacity EXCEPT ![h] = siz]
               /\ store' = m.st
               /\ last' = Call("pop", h, 0, 0, "none", 0)
               /\ UNCHANGED alive

\* pop()
pop(h) ==
  /\ h \in alive
  /\ IF empty(h)
       THEN /\ last' = Call("pop", h, 0, 0, "container_is_empty", 0)
            /\ UNCHANGED heapVars
       ELSE LET siz == capacity[h] - 1
                before == root[h]
                m == MergeNode(store, store[before].ls, store[before].rs)
            IN /\ root' = [root EXCEPT ![h] = m.node]
               /\ capacity' = [capacity EXCEPT ![h] = siz]
               /\ store' = Delete(m.st, before)
               /\ last' = Call("pop", h, 0, 0, "none", 0)
               /\ UNCHANGED alive

\* merge(other) without `other.capacity = 0`
mergeKeepsOtherCapacity(h, other) ==
  /\ h \in alive
  /\ other \in alive
  /\ LET m  == MergeNode(store, root[h], root[other])
         r1 == [root EXCEPT ![h] = m.node]
         c1 == [capacity EXCEPT ![h] = capacity[h] + capacity[other]]
         r2 == [r1 EXCEPT ![other] = NULL]
     IN /\ store' = m.st
        /\ root' = r2
        /\ capacity' = c1
  /\ last' = Call("merge", h, other, 0, "none", 0)
  /\ UNCHANGED alive

\* merge(other)
merge(h, other) ==
  /\ h \in alive
  /\ other \in alive
  /\ LET m  == MergeNode(store, root[h], root[other])
         r1 == [root EXCEPT ![h] = m.node]
         c1 == [capacity EXCEPT ![h] = capacity[h] + capacity[other]]
         c2 == [c1 EXCEPT ![other] = 0]
         r2 == [r1 EXCEPT ![other] = NULL]
     IN /\ store' = m.st
        /\ root' = r2
        /\ capacity' = c2
  /\ last' = Call("merge", h, other, 0, "none", 0)
  /\ UNCHANGED alive

----------------------------------------------------------------------------
(* Push, pop and merge between distinct queues, on default-constructed      *)
(* queues; SpecTop adds the calls of top().                                 *)

Push == \E h \in Heaps, e \in Values, n \in Nodes : push(h, e, n) /\ UNCHANGED driverVars
Pop == \E h \in Heaps : pop(h) /\ UNCHANGED driverVars
Top == \E h \in Heaps : top(h) /\ UNCHANGED driverVars
Merge == \E h \in Heaps : \E o \in Heaps \ {h} : merge(h, o) /\ UNCHANGED driverVars

Next == Push \/ Pop \/ Merge

Spec == Init /\ [][Next]_vars

NextTop == Push \/ Pop \/ Merge \/ Top

SpecTop == Init /\ [][NextTop]_vars

----------------------------------------------------------------------------
(* merge with the receiver itself as the argument: merge(other) has no test *)
(* of `&other == this`, so *this and other name the same object.            *)

SelfMerge == \E h \in Heaps : merge(h, h) /\ UNCHANGED driverVars

NextSelf == Push \/ Pop \/ Merge \/ SelfMerge

SpecSelf == Init /\ [][NextSelf]_vars

----------------------------------------------------------------------------
(* A comparator that throws: Compare is a template parameter, and push, pop *)
(* and merge run MergeNode inside try { } catch (...) { return; }.  The     *)
(* comparator returns normally k times and throws on its next call.         *)

\* the number of times MergeNode(a, b) calls the comparator
RECURSIVE Comparisons(_, _, _)
Comparisons(st, a, b) ==
  IF a = NULL \/ b = NULL THEN 0
  ELSE LET sw == NodeLess(st, a, b)
           a1 == IF sw THEN b ELSE a
           b1 == IF sw THEN a ELSE b
       IN 1 + Comparisons(st, st[a1].rs, b1)

\* MergeNode that swaps the children of a first and then merges b into the
\* left child: `std::swap(a->ls, a->rs); a->ls = MergeNode(a->ls, b)`
RECURSIVE MergeNodeThrowsEager(_, _, _, _)
MergeNodeThrowsEager(st, a, b, k) ==
  IF a = NULL THEN [st |-> st, node |-> b, thrown |-> FALSE]
  ELSE IF b = NULL THEN [st |-> st, node |-> a, thrown |-> FALSE]
  ELSE IF k = 0 THEN [st |-> st, node |-> NULL, thrown |-> TRUE]
  ELSE LET sw == NodeLess(st, a, b)
           a1 == IF sw THEN b ELSE a
           b1 == IF sw THEN a ELSE b
           s0 == [st EXCEPT ![a1].ls = st[a1].rs, ![a1].rs = st[a1].ls]
           r  == MergeNodeThrowsEager(s0, s0[a1].ls, b1, k - 1)
       IN IF r.thrown
            THEN [st |-> r.st, node |-> NULL, thrown |-> TRUE]
            ELSE [st |-> [r.st EXCEPT ![a1].ls = r.node], node |-> a1, thrown |-> FALSE]

\* MergeNode(a, b) when the comparator throws on call k + 1: the store after
\* the call, whether the exception left the call and, if not, the pointer
\* returned. An exception leaves through every enclosing call of MergeNode
\* before that call assigns a->rs.
RECURSIVE MergeNodeThrows(_, _, _, _)
MergeNodeThrows(st, a, b, k) ==
  IF a = NULL THEN [st |-> st, node |-> b, thrown |-> FALSE]
  ELSE IF b = NULL THEN [st |-> st, node |-> a, thrown |-> FALSE]
  ELSE IF k = 0 THEN [st |-> st, node |-> NULL, thrown |-> TRUE]
  ELSE LET sw == NodeLess(st, a, b)
           a1 == IF sw THEN b ELSE a
           b1 == IF sw THEN a ELSE b
           r  == MergeNodeThrows(st, st[a1].rs, b1, k - 1)
       IN IF r.thrown
            THEN [st |-> r.st, node |-> NULL, thrown |-> TRUE]
            ELSE LET s1 == [r.st EXCEPT ![a1].rs = r.node]
                     s2 == [s1 EXCEPT ![a1].ls = s1[a1].rs, ![a1].rs = s1[a1].ls]
                 IN [st |-> s2, node |-> a1, thrown |-> FALSE]

\* push(e) whose catch block returns without `delete node_pointer`
pushThrowsLeaks(h, e, n, k) ==
  /\ h \in alive
  /\ n \in Free(store)
  /\ LET m == MergeNodeThrows(New(store, n, e), root[h], n, k)
     IN IF m.thrown
          THEN /\ store' = m.st
               /\ last' = Call("push", h, 0, e, "swallowed", k)
               /\ UNCHANGED <<root, capacity>>
          ELSE /\ store' = m.st
               /\ root' = [root EXCEPT ![h] = m.node]
               /\ capacity' = [capacity EXCEPT ![h] = @ + 1]
               /\ last' = Call("push", h, 0, e, "none", 0)
  /\ UNCHANGED alive

\* push(e) with a comparator that throws on call k + 1
pushThrows(h, e, n, k) ==
  /\ h \in alive
  /\ n \in Free(store)
  /\ LET m == MergeNodeThrows(New(store, n, e), root[h], n, k)
     IN IF m.thrown
          THEN /\ store' = Delete(m.st, n)
               /\ last' = Call("push", h, 0, e, "swallowed", k)
               /\ UNCHANGED <<root, capacity>>
          ELSE /\ store' = m.st
               /\ root' = [root EXCEPT ![h] = m.node]
               /\ capacity' = [capacity EXCEPT ![h] = @ + 1]
               /\ last' = Call("push", h, 0, e, "none", 0)
  /\ UNCHANGED alive

\* pop() whose catch block runs `delete before` before it returns
popThrowsDeletes(h, k) ==
  /\ h \in alive
  /\ IF empty(h)
       THEN /\ last' = Call("pop", h, 0, 0, "container_is_empty", 0)
            /\ UNCHANGED heapVars
       ELSE LET siz == capacity[h] - 1
                before == root[h]
                m == MergeNodeThrows(store, store[before].ls, store[before].rs, k)
            IN IF m.thrown
                 THEN /\ store' = Delete(m.st, before)
                      /\ last' = Call("pop", h, 0, 0, "swallowed", k)
                      /\ UNCHANGED <<root, capacity, alive>>
                 ELSE /\ root' = [root EXCEPT ![h] = m.node]
                      /\ capacity' = [capacity EXCEPT ![h] = siz]
                      /\ store' = Delete(m.st, before)
                      /\ last' = Call("pop", h, 0, 0, "none", 0)
                      /\ UNCHANGED alive

\* pop() with a comparator that throws on call k + 1
popThrows(h, k) ==
  /\ h \in alive
  /\ IF empty(h)
       THEN /\ last' = Call("pop", h, 0, 0, "container_is_empty", 0)
            /\ UNCHANGED heapVars
       ELSE LET siz == capacity[h] - 1
                before == root[h]
                m == MergeNodeThrows(store, store[before].ls, store[before].rs, k)
            IN IF m.thrown
                 THEN /\ store' = m.st
                      /\ last' = Call("pop", h, 0, 0, "swallowed", k)
                      /\ UNCHANGED <<root, capacity, alive>>
                 ELSE /\ root' = [root EXCEPT ![h] = m.node]
                      /\ capacity' = [capacity EXCEPT ![h] = siz]
                      /\ store' = Delete(m.st, before)
                      /\ last' = Call("pop", h, 0, 0, "none", 0)
                      /\ UNCHANGED alive

\* merge(other) with a comparator that throws on call k + 1
mergeThrows(h, other, k) ==
  /\ h \in alive
  /\ other \in alive
  /\ LET m == MergeNodeThrows(store, root[h], root[other], k)
     IN IF m.thrown
          THEN /\ store' = m.st
               /\ last' = Call("merge", h, other, 0, "swallowed", k)
               /\ UNCHANGED <<root, capacity>>
          ELSE LET r1 == [root EXCEPT ![h] = m.node]
                   c1 == [capacity EXCEPT ![h] = capacity[h] + capacity[other]]
                   c2 == [c1 EXCEPT ![other] = 0]
                   r2 == [r1 EXCEPT ![other] = NULL]
               IN /\ store' = m.st
                  /\ root' = r2
                  /\ capacity' = c2
                  /\ last' = Call("merge", h, other, 0, "none", 0)
  /\ UNCHANGED alive

\* k counts the comparisons that return: with as many as the call makes, the
\* comparator does not throw during the call
PushThrows ==
  \E h \in Heaps, e \in Values, n \in Free(store) :
    \E k \in 0..Comparisons(New(store, n, e), root[h], n) :
      pushThrows(h, e, n, k) /\ UNCHANGED driverVars
PopThrows ==
  \E h \in Heaps :
    \E k \in 0..(IF empty(h) THEN 0
                 ELSE Comparisons(store, store[root[h]].ls, store[root[h]].rs)) :
      popThrows(h, k) /\ UNCHANGED driverVars
MergeThrows ==
  \E h \in Heaps : \E o \in Heaps \ {h} :
    \E k \in 0..Comparisons(store, root[h], root[o]) :
      mergeThrows(h, o, k) /\ UNCHANGED driverVars

NextThrows == PushThrows \/ PopThrows \/ MergeThrows

SpecThrows == Init /\ [][NextThrows]_vars

----------------------------------------------------------------------------
(* Construction, copy, assignment and destruction *)

\* priority_queue()
construct(h) ==
  /\ h \notin alive
  /\ alive' = alive \cup {h}
  /\ capacity' = [capacity EXCEPT ![h] = 0]
  /\ root' = [root EXCEPT ![h] = NULL]
  /\ last' = Call("construct", h, 0, 0, "none", 0)
  /\ UNCHANGED store

\* priority_queue(const priority_queue &other); `root` has no initializer, so
\* it holds an indeterminate pointer g when copy(root, other.root) is entered
copyConstruct(h, other, g, f) ==
  /\ h \notin alive
  /\ other \in alive
  /\ IsPlacement(f, store, root[other])
  /\ LET c == copy(store, g, root[other], f)
     IN /\ store' = c.st
        /\ root' = [root EXCEPT ![h] = c.one]
  /\ capacity' = [capacity EXCEPT ![h] = capacity[other]]
  /\ alive' = alive \cup {h}
  /\ last' = Call("copy", h, other, 0, "none", 0)

\* ~priority_queue()
destroy(h) ==
  /\ h \in alive
  /\ store' = ClearNode(store, root[h])
  /\ root' = [root EXCEPT ![h] = NULL]
  /\ alive' = alive \ {h}
  /\ last' = Call("destroy", h, 0, 0, "none", 0)
  /\ UNCHANGED capacity

\* operator=(const priority_queue &other)
assign(h, other, f) ==
  /\ h \in alive
  /\ other \in alive
  /\ IF other = h
       THEN /\ f = << >>
            /\ UNCHANGED heapVars
       ELSE LET s1 == ClearNode(store, root[h])
            IN /\ IsPlacement(f, s1, root[other])
               /\ LET c == copy(s1, NULL, root[other], f)
                  IN /\ store' = c.st
                     /\ root' = [root EXCEPT ![h] = c.one]
               /\ capacity' = [capacity EXCEPT ![h] = capacity[other]]
               /\ UNCHANGED alive
  /\ last' = Call("assign", h, other, 0, "none", 0)

\* the addresses `new` can return for the copies of the nodes under p
Placements(st, p) == Injections(Reach(st, p), Free(st))

Construct == \E h \in Heaps : construct(h) /\ UNCHANGED driverVars
Destroy == \E h \in Heaps : destroy(h) /\ UNCHANGED driverVars
Assign ==
  \E h \in alive, o \in alive :
    \E f \in IF o = h THEN {<< >>}
             ELSE Placements(ClearNode(store, root[h]), root[o]) :
      assign(h, o, f) /\ UNCHANGED driverVars
\* copy construction from a queue that holds at least one element
CopyConstruct ==
  \E h \in Heaps \ alive, o \in alive, g \in Ptr :
    /\ root[o] # NULL
    /\ \E f \in Placements(store, root[o]) : copyConstruct(h, o, g, f)
    /\ UNCHANGED driverVars

NextCopy == Push \/ Pop \/ Construct \/ Destroy \/ Assign \/ CopyConstruct

SpecCopy == Init /\ [][NextCopy]_vars

----------------------------------------------------------------------------
(* Constructors that leave `root` without an initializer: the copy          *)
(* constructor from any queue, and priority_queue(_root, _capacity) from a  *)
(* tree of nodes the caller built with the public LeftistNode constructor.  *)
(* copy() assigns `root` only when the source pointer is not null, so       *)
(* otherwise `root` keeps an indeterminate value g: null, a live address or *)
(* an address that is not allocated. A call that would follow a pointer to  *)
(* an address that is not allocated has no defined outcome and is not taken.*)
(* SpecAbsent has the copy constructor from any queue; SpecNodes has the    *)
(* node-pointer constructor from a pointer to a tree (from a null pointer   *)
(* it leaves `root` as the copy constructor from an empty queue does).      *)

\* Bound of the model: the nodes the caller allocates itself.
MaxUserNodes == 2

\* every address followed from p is allocated
Sound(st, p) == Reach(st, p) \subseteq DOMAIN st

\* the nodes of the caller: allocated, and under no queue's root
Unowned == DOMAIN store \ UNION {Reach(store, root[h]) : h \in alive}

\* the caller's nodes that are no child of another node
UserRoots == {n \in Unowned : \A m \in DOMAIN store : n \notin Kids(store, m)}

\* new LeftistNode(v, l, r) by the caller, at address n
nodeNew(n, v, l, r) ==
  /\ n \in Free(store)
  /\ store' = (n :> LeftistNode(v, l, r)) @@ store
  /\ last' = Call("node", 0, 0, 0, "none", 0)
  /\ UNCHANGED <<root, capacity, alive>>

\* priority_queue(LeftistNode *_root, size_t _capacity = 0); g is the
\* indeterminate value of `root` when copy(root, _root) is entered
nodeConstruct(h, p, c, g, f) ==
  /\ h \notin alive
  /\ IsPlacement(f, store, p)
  /\ LET r == copy(store, g, p, f)
     IN /\ store' = r.st
        /\ root' = [root EXCEPT ![h] = r.one]
  /\ capacity' = [capacity EXCEPT ![h] = c]
  /\ alive' = alive \cup {h}
  /\ last' = Call("nodes", h, 0, c, "none", p)

PushDefined ==
  \E h \in alive, e \in Values, n \in Nodes :
    /\ Sound(store, root[h])
    /\ push(h, e, n) /\ UNCHANGED driverVars
PopDefined ==
  \E h \in alive :
    /\ empty(h) \/ (root[h] # NULL /\ Sound(store, root[h]))
    /\ pop(h) /\ UNCHANGED driverVars
DestroyDefined ==
  \E h \in alive :
    /\ Sound(store, root[h])
    /\ destroy(h) /\ UNCHANGED driverVars
\* copy construction from any queue, empty or not
CopyConstructAny ==
  \E h \in Heaps \ alive, o \in alive, g \in Ptr :
    /\ Sound(store, root[o])
    /\ \E f \in Placements(store, root[o]) : copyConstruct(h, o, g, f)
    /\ UNCHANGED driverVars
\* the caller builds a tree bottom-up, of at most MaxUserNodes nodes in all
NodeNew ==
  \E n \in Nodes, v \in Values, l \in UserRoots \cup {NULL}, r \in UserRoots \cup {NULL} :
    /\ l # r \/ l = NULL
    /\ Cardinality(Unowned) < MaxUserNodes
    /\ nodeNew(n, v, l, r) /\ UNCHANGED driverVars
\* the caller passes a tree it built and, as _capacity, the number of nodes
\* of the tree or nothing (the default, 0)
NodeConstruct ==
  \E h \in Heaps \ alive, p \in UserRoots, g \in Ptr :
    \E c \in {0, Cardinality(Reach(store, p))} :
      /\ \E f \in Placements(store, p) : nodeConstruct(h, p, c, g, f)
      /\ UNCHANGED driverVars

NextAbsent == PushDefined \/ PopDefined \/ DestroyDefined \/ CopyConstructAny

SpecAbsent == Init /\ [][NextAbsent]_vars

NextNodes == Push \/ Pop \/ Destroy \/ NodeNew \/ NodeConstruct

SpecNodes == Init /\ [][NextNodes]_vars

----------------------------------------------------------------------------
(* The calls followed step by step: `stack` holds one frame per call in     *)
(* progress, the running call last. A frame records the function, the queue *)
(* object and the argument queue of a member call, the pointer arguments a  *)
(* and b, the reference argument ref (<<"root", h>>: the member root of     *)
(* queue h; <<"ls", n>>, <<"rs", n>>: a child pointer of node n), the place *)
(* `at` where the call continues, and the value `ret` its callee returned.  *)

\* the deepest nesting of calls followed
MaxDepth == 2 * MaxNodes + 2

NoRef == <<"none", 0>>

Frame(fn, h, other, a, b, ref, at) ==
  [fn |-> fn, h |-> h, other |-> other, a |-> a, b |-> b, ref |-> ref,
   at |-> at, ret |-> NULL]

\* the pointer a reference names
Deref(st, rt, ref) ==
  IF ref[1] = "root" THEN rt[ref[2]]
  ELSE IF ref[1] = "ls" THEN st[ref[2]].ls ELSE st[ref[2]].rs

\* the assignment of v through a reference
StoreAfter(st, ref, v) ==
  IF ref[1] = "ls" THEN [st EXCEPT ![ref[2]].ls = v]
  ELSE IF ref[1] = "rs" THEN [st EXCEPT ![ref[2]].rs = v] ELSE st
RootAfter(rt, ref, v) ==
  IF ref[1] = "root" THEN [rt EXCEPT ![ref[2]] = v] ELSE rt

Running == stack[Len(stack)]

\* the running call returns
Return == SubSeq(stack, 1, Len(stack) - 1)
\* the running call returns v to its caller
ReturnValue(v) ==
  [i \in 1..(Len(stack) - 1) |->
     IF i = Len(stack) - 1 THEN [stack[i] EXCEPT !.ret = v] ELSE stack[i]]
\* the running call calls f and continues at `at` when f returns
CallFrom(at, f) == Append([stack EXCEPT ![Len(stack)].at = at], f)

\* push(e): the node is allocated and MergeNode(root, node_pointer) is called
BeginPush ==
  /\ stack = << >>
  /\ \E h \in alive, e \in Values, n \in Free(store) :
       /\ store' = New(store, n, e)
       /\ stack' = <<Frame("push", h, 0, n, NULL, NoRef, "ret"),
                     Frame("MergeNode", 0, 0, root[h], n, NoRef, "enter")>>
  /\ UNCHANGED <<root, capacity, alive, last, pc, pushed, out>>

\* pop() on a non-empty queue: MergeNode(before->ls, before->rs) is called
BeginPop ==
  /\ stack = << >>
  /\ \E h \in alive :
       /\ ~empty(h)
       /\ stack' = <<Frame("pop", h, 0, root[h], NULL, NoRef, "ret"),
                     Frame("MergeNode", 0, 0, store[root[h]].ls, store[root[h]].rs,
                           NoRef, "enter")>>
  /\ UNCHANGED <<store, root, capacity, alive, last, pc, pushed, out>>

\* merge(other), other being any queue, the receiver included:
\* MergeNode(root, other.root) is called
BeginMerge ==
  /\ stack = << >>
  /\ \E h \in alive, o \in alive :
       stack' = <<Frame("merge", h, o, NULL, NULL, NoRef, "ret"),
                  Frame("MergeNode", 0, 0, root[h], root[o], NoRef, "enter")>>
  /\ UNCHANGED <<store, root, capacity, alive, last, pc, pushed, out>>

\* operator=(other) with &other != this: ClearNode(root) is called; the free
\* store has room for the copy
BeginAssign ==
  /\ stack = << >>
  /\ \E h \in alive : \E o \in alive \ {h} :
       /\ Cardinality(Reach(store, root[o])) <=
            Cardinality(Free(store)) + Cardinality(Reach(store, root[h]))
       /\ stack' = <<Frame("operator=", h, o, NULL, NULL, NoRef, "clear"),
                     Frame("ClearNode", 0, 0, NULL, NULL, <<"root", h>>, "enter")>>
  /\ UNCHANGED <<store, root, capacity, alive, last, pc, pushed, out>>

\* ~priority_queue(): ClearNode(root) is called
BeginDestroy ==
  /\ stack = << >>
  /\ \E h \in alive :
       stack' = <<Frame("~priority_queue", h, 0, NULL, NULL, NoRef, "clear"),
                  Frame("ClearNode", 0, 0, NULL, NULL, <<"root", h>>, "enter")>>
  /\ UNCHANGED <<store, root, capacity, alive, last, pc, pushed, out>>

\* priority_queue(): the members' initializers; no call is made
StepsConstruct ==
  /\ stack = << >>
  /\ \E h \in Heaps \ alive :
       /\ alive' = alive \cup {h}
       /\ capacity' = [capacity EXCEPT ![h] = 0]
       /\ root' = [root EXCEPT ![h] = NULL]
  /\ UNCHANGED <<store, last, pc, pushed, out, stack>>

\* MergeNode(a, b) calling MergeNode(a, b) where the source calls
\* MergeNode(a->rs, b): the recursion that does not descend
MergeNodeEnterSame ==
  /\ stack # << >>
  /\ Running.fn = "MergeNode" /\ Running.at = "enter"
  /\ LET a == Running.a
         b == Running.b
     IN IF a = NULL THEN stack' = ReturnValue(b)
        ELSE IF b = NULL THEN stack' = ReturnValue(a)
        ELSE LET sw == NodeLess(store, a, b)
                 a1 == IF sw THEN b ELSE a
                 b1 == IF sw THEN a ELSE b
             IN /\ Len(stack) < MaxDepth
                /\ stack' = Append([stack EXCEPT ![Len(stack)].a = a1,
                                                 ![Len(stack)].b = b1,
                                                 ![Len(stack)].at = "ret"],
                                   Frame("MergeNode", 0, 0, a1, b1, NoRef, "enter"))
  /\ UNCHANGED <<store, root, capacity, alive, last, pc, pushed, out>>

\* MergeNode(a, b) up to its recursive call
MergeNodeEnter ==
  /\ stack # << >>
  /\ Running.fn = "MergeNode" /\ Running.at = "enter"
  /\ LET a == Running.a
         b == Running.b
     IN IF a = NULL THEN stack' = ReturnValue(b)
        ELSE IF b = NULL THEN stack' = ReturnValue(a)
        ELSE LET sw == NodeLess(store, a, b)
                 a1 == IF sw THEN b ELSE a
                 b1 == IF sw THEN a ELSE b
             IN /\ Len(stack) < MaxDepth
                /\ stack' = Append([stack EXCEPT ![Len(stack)].a = a1,
                                                 ![Len(stack)].b = b1,
                                                 ![Len(stack)].at = "ret"],
                                   Frame("MergeNode", 0, 0, store[a1].rs, b1,
                                         NoRef, "enter"))
  /\ UNCHANGED <<store, root, capacity, alive, last, pc, pushed, out>>

\* MergeNode(a, b) from the return of its recursive call
MergeNodeResume ==
  /\ stack # << >>
  /\ Running.fn = "MergeNode" /\ Running.at = "ret"
  /\ LET a  == Running.a
         s1 == [store EXCEPT ![a].rs = Running.ret]
         s2 == [s1 EXCEPT ![a].ls = s1[a].rs, ![a].rs = s1[a].ls]
     IN /\ store' = s2
        /\ stack' = ReturnValue(a)
  /\ UNCHANGED <<root, capacity, alive, last, pc, pushed, out>>

\* push(e) from the return of MergeNode
PushResume ==
  /\ stack # << >>
  /\ Running.fn = "push"
  /\ root' = [root EXCEPT ![Running.h] = Running.ret]
  /\ capacity' = [capacity EXCEPT ![Running.h] = @ + 1]
  /\ stack' = << >>
  /\ UNCHANGED <<store, alive, last, pc, pushed, out>>

\* pop() from the return of MergeNode
PopResume ==
  /\ stack # << >>
  /\ Running.fn = "pop"
  /\ root' = [root EXCEPT ![Running.h] = Running.ret]
  /\ capacity' = [capacity EXCEPT ![Running.h] = @ - 1]
  /\ store' = Delete(store, Running.a)
  /\ stack' = << >>
  /\ UNCHANGED <<alive, last, pc, pushed, out>>

\* merge(other) from the return of MergeNode
MergeResume ==
  /\ stack # << >>
  /\ Running.fn = "merge"
  /\ LET h  == Running.h
         o  == Running.other
         r1 == [root EXCEPT ![h] = Running.ret]
         c1 == [capacity EXCEPT ![h] = capacity[h] + capacity[o]]
         c2 == [c1 EXCEPT ![o] = 0]
         r2 == [r1 EXCEPT ![o] = NULL]
     IN /\ root' = r2
        /\ capacity' = c2
  /\ stack' = << >>
  /\ UNCHANGED <<store, alive, last, pc, pushed, out>>

\* ClearNode(now): from its entry, from the return of ClearNode(now->ls) and
\* from the return of ClearNode(now->rs)
ClearNodeStep ==
  /\ stack # << >>
  /\ Running.fn = "ClearNode"
  /\ LET now == Deref(store, root, Running.ref)
     IN IF Running.at = "enter"
          THEN /\ IF now = NULL THEN stack' = Return
                  ELSE /\ Len(stack) < MaxDepth
                       /\ stack' = CallFrom("ls", Frame("ClearNode", 0, 0, NULL, NULL,
                                                        <<"ls", now>>, "enter"))
               /\ UNCHANGED <<store, root>>
        ELSE IF Running.at = "ls"
          THEN /\ Len(stack) < MaxDepth
               /\ stack' = CallFrom("rs", Frame("ClearNode", 0, 0, NULL, NULL,
                                                <<"rs", now>>, "enter"))
               /\ UNCHANGED <<store, root>>
        ELSE /\ store' = StoreAfter(Delete(store, now), Running.ref, NULL)
             /\ root' = RootAfter(root, Running.ref, NULL)
             /\ stack' = Return
  /\ UNCHANGED <<capacity, alive, last, pc, pushed, out>>

\* copy(one, another): from its entry, from the return of
\* copy(one->ls, another->ls) and from the return of copy(one->rs, another->rs)
CopyStep ==
  /\ stack # << >>
  /\ Running.fn = "copy"
  /\ LET another == Running.a
     IN IF Running.at = "enter"
          THEN IF another = NULL
                 THEN /\ stack' = Return
                      /\ UNCHANGED <<store, root>>
                 ELSE \E n \in Free(store) :
                        /\ Len(stack) < MaxDepth
                        /\ store' = StoreAfter(New(store, n, store[another].value),
                                               Running.ref, n)
                        /\ root' = RootAfter(root, Running.ref, n)
                        /\ stack' = CallFrom("ls", Frame("copy", 0, 0, store[another].ls,
                                                         NULL, <<"ls", n>>, "enter"))
        ELSE IF Running.at = "ls"
          THEN /\ Len(stack) < MaxDepth
               /\ stack' = CallFrom("rs", Frame("copy", 0, 0, store[another].rs, NULL,
                                                <<"rs", Deref(store, root, Running.ref)>>,
                                                "enter"))
               /\ UNCHANGED <<store, root>>
        ELSE /\ stack' = Return
             /\ UNCHANGED <<store, root>>
  /\ UNCHANGED <<capacity, alive, last, pc, pushed, out>>

\* operator=(other) from the return of ClearNode(root) and from the return of
\* copy(root, other.root)
AssignResume ==
  /\ stack # << >>
  /\ Running.fn = "operator="
  /\ IF Running.at = "clear"
       THEN /\ stack' = CallFrom("copy", Frame("copy", 0, 0, root[Running.other], NULL,
                                               <<"root", Running.h>>, "enter"))
            /\ UNCHANGED capacity
       ELSE /\ capacity' = [capacity EXCEPT ![Running.h] = capacity[Running.other]]
            /\ stack' = << >>
  /\ UNCHANGED <<store, root, alive, last, pc, pushed, out>>

\* ~priority_queue() from the return of ClearNode(root): the object's
\* lifetime ends, and its members, which no call can read any more, are
\* recorded as a newly constructed object's
DestroyResume ==
  /\ stack # << >>
  /\ Running.fn = "~priority_queue"
  /\ alive' = alive \ {Running.h}
  /\ capacity' = [capacity EXCEPT ![Running.h] = 0]
  /\ stack' = << >>
  /\ UNCHANGED <<store, root, last, pc, pushed, out>>

\* the steps of the calls in progress
Step ==
  \/ MergeNodeEnter \/ MergeNodeResume
  \/ PushResume \/ PopResume \/ MergeResume
  \/ ClearNodeStep \/ CopyStep \/ AssignResume \/ DestroyResume

NextSteps ==
  \/ BeginPush \/ BeginPop \/ BeginMerge \/ BeginAssign \/ BeginDestroy
  \/ StepsConstruct \/ Step

\* a call in progress is not suspended: its next step is taken
SpecSteps == Init /\ [][NextSteps]_vars /\ WF_vars(Step)

----------------------------------------------------------------------------
(* Extract-all: push a sequence of values into the empty queue 1, then read *)
(* top() and call pop() until empty() holds.                                *)

DrainPush ==
  /\ pc = "fill"
  /\ \E e \in Values, n \in Nodes :
       /\ push(1, e, n)
       /\ pushed' = Append(pushed, e)
  /\ UNCHANGED <<pc, out, stack>>

DrainTop ==
  /\ pc \in {"fill", "read"}
  /\ ~empty(1)
  /\ top(1)
  /\ out' = Append(out, last'.val)
  /\ pc' = "pop"
  /\ UNCHANGED <<pushed, stack>>

DrainPop ==
  /\ pc = "pop"
  /\ pop(1)
  /\ pc' = "read"
  /\ UNCHANGED <<pushed, out, stack>>

\* the queue has been filled and then emptied
Drained == pc = "read" /\ empty(1)

NextDrain == DrainPush \/ DrainTop \/ DrainPop

SpecDrain == Init /\ [][NextDrain]_vars

----------------------------------------------------------------------------
(* Properties *)

\* the values held under p, as the number of nodes per value
Held(st, p) == [v \in Values |-> Count(st, p, v)]

\* how many child pointers of the nodes in S point at n
InLinks(st, S, n) ==
  Cardinality({m \in S : st[m].ls = n}) + Cardinality({m \in S : st[m].rs = n})

\* the nodes reachable from p are live and form a tree rooted at p: every
\* node but p is pointed at by exactly one child pointer, p by none
IsTree(st, p) ==
  LET R == Reach(st, p)
  IN /\ R \subseteq DOMAIN st
     /\ \A n \in R : InLinks(st, R, n) = IF n = p THEN 0 ELSE 1

\* no node under p has a child that is greater under the comparator
HeapOrdered(st, p) ==
  \A n \in Reach(st, p) : \A c \in Kids(st, n) : ~Compare(st[n].value, st[c].value)

\* C1: in every reachable state of push/pop/merge on default-constructed
\* queues, no node of any queue has a child whose value is strictly greater
\* than its own under the comparator.
C1_HeapOrder == \A h \in alive : HeapOrdered(store, root[h])

\* a pop has just merged the subtrees of a four-node queue into a tree of
\* three whose root has a strictly smaller child
C1_Witness ==
  /\ last.op = "pop" /\ last.exc = "none"
  /\ Cardinality(Reach(store, root[last.h])) = 3
  /\ \E c \in Kids(store, root[last.h]) :
       Compare(store[c].value, store[root[last.h]].value)

\* C2: for every queue size() is the number of nodes reachable from root, and
\* root is absent exactly when size() is 0.
C2_SizeConsistency ==
  \A h \in alive :
    /\ size(h) = Cardinality(Reach(store, root[h]))
    /\ (root[h] = NULL <=> size(h) = 0)

\* a pop has just taken the only element of one queue while the other queue,
\* filled by a merge or pushes, holds two
C2_Witness ==
  /\ last.op = "pop" /\ last.exc = "none"
  /\ root[last.h] = NULL
  /\ \E o \in alive \ {last.h} : size(o) = 2

\* C3: on a non-empty queue top() returns a value that no held value exceeds
\* under the comparator, and the call changes neither the tree nor the size.
C3_TopIsMaximal ==
  [][(last'.op = "top" /\ ~empty(last'.h)) =>
       /\ last'.exc = "none"
       /\ \A n \in Reach(store, root[last'.h]) : ~Compare(last'.val, store[n].value)
       /\ \E n \in Reach(store, root[last'.h]) : store[n].value = last'.val
       /\ UNCHANGED <<store, root, capacity>>]_vars

\* top() has returned the greatest of four held values that are not all equal
C3_Witness ==
  /\ last.op = "top" /\ last.exc = "none" /\ size(last.h) = 4
  /\ \E n \in Reach(store, root[last.h]) : Compare(store[n].value, last.val)

\* how many entries of the sequence q equal v
Occurrences(q, v) == Cardinality({i \in 1..Len(q) : q[i] = v})

\* C4: when a sequence of values has been pushed into an empty queue and the
\* queue has then been emptied by reading top() and calling pop(), the values
\* read are in non-increasing comparator order and are a permutation of the
\* values pushed.
C4_ExtractAllOrdering ==
  Drained =>
    /\ Len(out) = Len(pushed)
    /\ \A i, j \in 1..Len(out) : i < j => ~Compare(out[i], out[j])
    /\ \A v \in Values : Occurrences(out, v) = Occurrences(pushed, v)
    /\ store = << >> /\ root[1] = NULL

\* four values, pushed neither in non-increasing order nor all distinct, have
\* been read back
C4_Witness ==
  /\ Drained
  /\ Len(pushed) = 4 /\ Len(out) = 4
  /\ \E i, j \in 1..Len(pushed) : i < j /\ Compare(pushed[i], pushed[j])
  /\ \E i, j \in 1..Len(pushed) : i < j /\ Compare(pushed[j], pushed[i])

\* C5: a push(e) that returns normally increases size() by exactly 1 and adds
\* exactly one node, holding e, to the queue's tree; top() afterwards returns
\* e when e is strictly greater than every value held before, and the value
\* it returned before otherwise.
C5_PushThenTop ==
  [][last'.op = "push" => \A h \in Heaps, e \in Values :
       (last'.exc = "none" /\ last'.h = h /\ last'.arg = e) =>
       LET old == Reach(store, root[h])
           new == Reach(store', root'[h])
       IN /\ size(h)' = size(h) + 1
          /\ old \subseteq new
          /\ Cardinality(new \ old) = 1
          /\ \A n \in new \ old : n \notin DOMAIN store /\ store'[n].value = e
          /\ \A n \in old : store'[n].value = store[n].value
          /\ DOMAIN store' = DOMAIN store \cup new
          /\ IsTree(store', root'[h])
          /\ ~empty(h)'
          /\ TopOf(store', root'[h]) =
               IF \A n \in old : Compare(store[n].value, e)
                 THEN e ELSE TopOf(store, root[h])]_vars

\* a push into a queue of three has made the pushed value the new top()
C5_Witness ==
  /\ last.op = "push" /\ last.exc = "none" /\ size(last.h) = 4
  /\ TopOf(store, root[last.h]) = last.arg
  /\ \A c \in Kids(store, root[last.h]) : Compare(store[c].value, last.arg)

\* a push into a queue of three of a value that is not the greatest has left
\* top() as it was
C5_WitnessKept ==
  /\ last.op = "push" /\ last.exc = "none" /\ size(last.h) = 4
  /\ Compare(last.arg, TopOf(store, root[last.h]))

\* C6: after A.merge(B) with A and B distinct, of sizes m and n, A.size() is
\* m + n, B.size() is 0, B.empty() holds and B.root is null.
C6_MergeSizeLaw ==
  [][last'.op = "merge" => \A a \in Heaps : \A b \in Heaps \ {a} :
       (last'.h = a /\ last'.other = b) =>
          /\ size(a)' = size(a) + size(b)
          /\ size(b)' = 0
          /\ empty(b)'
          /\ root'[b] = NULL]_vars

\* a merge has just returned, leaving four elements in the receiver and none
\* in the donor
C6_Witness ==
  /\ last.op = "merge" /\ last.h # last.other
  /\ size(last.h) = 4 /\ size(last.other) = 0 /\ root[last.other] = NULL

\* C7: after A.merge(B) with A and B distinct, the nodes reachable from A.root
\* are exactly those formerly reachable from A.root or B.root, each once, with
\* their values; no node is allocated or freed; none is reachable from B; and
\* A.top() is the comparator-greater of the two former tops.
C7_MergeTransfersNodes ==
  [][last'.op = "merge" => \A a \in Heaps : \A b \in Heaps \ {a} :
       (last'.h = a /\ last'.other = b) =>
       LET ra == Reach(store, root[a])
           rb == Reach(store, root[b])
       IN /\ Reach(store', root'[a]) = ra \cup rb
          /\ IsTree(store', root'[a])
          /\ Reach(store', root'[b]) = {}
          /\ DOMAIN store' = DOMAIN store
          /\ \A n \in DOMAIN store : store'[n].value = store[n].value
          /\ (root[a] # NULL /\ root[b] # NULL) =>
               /\ root'[a] \in {root[a], root[b]}
               /\ TopOf(store', root'[a]) =
                    IF Compare(TopOf(store, root[a]), TopOf(store, root[b]))
                      THEN TopOf(store, root[b]) ELSE TopOf(store, root[a])]_vars

\* a merge has just returned, leaving the receiver a tree of four whose root
\* is strictly greater than its only child
C7_Witness ==
  /\ last.op = "merge" /\ last.h # last.other
  /\ Reach(store, root[last.other]) = {}
  /\ Cardinality(Reach(store, root[last.h])) = 4
  /\ \A c \in Kids(store, root[last.h]) :
       Compare(store[c].value, TopOf(store, root[last.h]))
  /\ Cardinality(Kids(store, root[last.h])) = 1

\* two queues share no node
Disjoint(st, p, q) == Reach(st, p) \cap Reach(st, q) = {}

\* C8: after copy-constructing C from a non-empty A, or assigning C = A, C
\* and A share no node and C holds the values of A in a tree of its own with
\* A's size, A being left as it was; and every push, pop or destruction of one
\* queue leaves the tree, size and top of the other queue exactly as they
\* were.
C8_CopyIndependence ==
  [][\A c \in Heaps : \A a \in Heaps \ {c} :
       /\ (last'.op \in {"copy", "assign"} /\ last'.h = c /\ last'.other = a) =>
            /\ Disjoint(store', root'[c], root'[a])
            /\ IsTree(store', root'[c])
            /\ Held(store', root'[c]) = Held(store, root[a])
            /\ size(c)' = size(a)
            /\ (root'[c] = NULL) <=> (root[a] = NULL)
            /\ root[a] # NULL => TopOf(store', root'[c]) = TopOf(store, root[a])
            /\ root'[a] = root[a]
            /\ Tree(store', root'[a]) = Tree(store, root[a])
            /\ size(a)' = size(a)
       /\ (last'.op \in {"push", "pop", "destroy"} /\ last'.h = c /\ a \in alive) =>
            /\ root'[a] = root[a]
            /\ Tree(store', root'[a]) = Tree(store, root[a])
            /\ Reach(store', root'[a]) \subseteq DOMAIN store'
            /\ size(a)' = size(a)
            /\ a \in alive']_vars

\* a queue of two has just been copy-constructed into another queue
C8_Witness ==
  /\ last.op = "copy"
  /\ alive = Heaps
  /\ size(last.h) = 2 /\ size(last.other) = 2
  /\ Cardinality(Reach(store, root[last.h]) \cup Reach(store, root[last.other])) = 4

\* a queue of two has just been assigned to another queue
C8_WitnessAssign ==
  /\ last.op = "assign" /\ last.h # last.other
  /\ size(last.h) = 2 /\ size(last.other) = 2
  /\ Cardinality(Reach(store, root[last.h]) \cup Reach(store, root[last.other])) = 4

\* C9: top() and pop() raise container_is_empty exactly when size() is 0, and
\* then leave root, size and the store unchanged.
C9_EmptyContainerErrors ==
  [][last'.op \in {"top", "pop"} => \A h \in Heaps :
       last'.h = h =>
       /\ (last'.exc = "container_is_empty") <=> (size(h) = 0)
       /\ (last'.exc = "none") <=> (size(h) # 0)
       /\ size(h) = 0 =>
            /\ UNCHANGED <<store, root, capacity>>
            /\ root'[h] = NULL
            /\ empty(h)']_vars

\* pop() has raised container_is_empty on a queue whose elements were moved
\* out by a merge: the other queue holds them
C9_Witness ==
  /\ last.op = "pop" /\ last.exc = "container_is_empty"
  /\ root[last.h] = NULL /\ size(last.h) = 0
  /\ \E o \in alive \ {last.h} : size(o) = 4

\* C10: for distinct queues, A.merge(E) with E empty leaves A's tree, size and
\* top unchanged and E empty; E.merge(A) with E empty gives E A's former
\* tree, size and top and leaves A empty.
C10_NoOpMerge ==
  [][last'.op = "merge" => \A x \in Heaps : \A y \in Heaps \ {x} :
       (last'.h = x /\ last'.other = y) =>
          /\ empty(y) =>
               /\ root'[x] = root[x]
               /\ Tree(store', root'[x]) = Tree(store, root[x])
               /\ size(x)' = size(x)
               /\ root'[y] = NULL /\ empty(y)'
               /\ store' = store
          /\ empty(x) =>
               /\ root'[x] = root[y]
               /\ Tree(store', root'[x]) = Tree(store, root[y])
               /\ size(x)' = size(y)
               /\ root'[y] = NULL /\ empty(y)'
               /\ store' = store]_vars

\* a merge has just returned with one element in the receiver: one of the
\* two queues was empty when it was called
C10_Witness ==
  /\ last.op = "merge" /\ last.h # last.other
  /\ size(last.h) = 1 /\ Cardinality(Reach(store, root[last.h])) = 1
  /\ size(last.other) = 0


\* C11: a pop() on a non-empty queue that returns normally decreases size() by
\* exactly 1, frees the old root and no other node, leaves every other node of
\* the tree reachable from the new root in a tree, with its value, and takes
\* one occurrence of the previous top() out of the held values; after the pop
\* of the last element root is null.
C11_PopFreesOldRoot ==
  [][last'.op = "pop" => \A h \in Heaps :
       (last'.exc = "none" /\ last'.h = h) =>
       LET before == root[h]
           old == Reach(store, root[h])
       IN /\ size(h)' = size(h) - 1
          /\ before \in DOMAIN store
          /\ DOMAIN store' = DOMAIN store \ {before}
          /\ Reach(store', root'[h]) = old \ {before}
          /\ IsTree(store', root'[h])
          /\ \A n \in old \ {before} : store'[n].value = store[n].value
          /\ \A v \in Values :
               Count(store', root'[h], v) =
                 Count(store, root[h], v) - (IF v = TopOf(store, before) THEN 1 ELSE 0)
          /\ (size(h) = 1 => root'[h] = NULL)]_vars

\* a pop has just taken the root of a queue of four: the three nodes left are
\* the only live nodes
C11_Witness ==
  /\ last.op = "pop" /\ last.exc = "none"
  /\ size(last.h) = 3
  /\ Reach(store, root[last.h]) = DOMAIN store
  /\ Cardinality(DOMAIN store) = 3


\* x and y are equivalent under the comparator: neither is less than the other
Equivalent(x, y) == ~Compare(x, y) /\ ~Compare(y, x)

\* C16: a push(e) of a value equivalent to the current top() leaves the former
\* root node at the root, and A.merge(B) of distinct non-empty queues with
\* equivalent tops leaves A's former root node at the root; in both calls the
\* first operand of MergeNode is the former root.
C16_TieBreak ==
  [][/\ last'.op = "push" => \A h \in Heaps, e \in Values :
          (last'.exc = "none" /\ last'.h = h /\ last'.arg = e /\ root[h] # NULL
             /\ Equivalent(TopOf(store, root[h]), e)) =>
          /\ root'[h] = root[h]
          /\ \A n \in DOMAIN store' \ DOMAIN store :
               MergeNode(New(store, n, e), root[h], n).node = root[h]
     /\ last'.op = "merge" => \A a \in Heaps : \A b \in Heaps \ {a} :
          (last'.h = a /\ last'.other = b /\ root[a] # NULL /\ root[b] # NULL
             /\ Equivalent(TopOf(store, root[a]), TopOf(store, root[b]))) =>
          /\ root'[a] = root[a]
          /\ MergeNode(store, root[a], root[b]).node = root[a]
          /\ MergeNode(store, root[b], root[a]).node = root[b]]_vars

\* a push has just returned leaving four nodes that all hold the pushed value:
\* the value pushed was equivalent to the top() of the queue of three
C16_Witness ==
  /\ last.op = "push" /\ last.exc = "none" /\ size(last.h) = 4
  /\ \A n \in Reach(store, root[last.h]) : Equivalent(store[n].value, last.arg)
  /\ Cardinality(Reach(store, root[last.h])) = 4

\* a merge has just returned leaving four nodes of equivalent values in the
\* receiver
C16_WitnessMerge ==
  /\ last.op = "merge" /\ last.h # last.other /\ size(last.h) = 4
  /\ \A n, m \in Reach(store, root[last.h]) : Equivalent(store[n].value, store[m].value)
  /\ Cardinality(Reach(store, root[last.h])) = 4


\* C12: when the comparator throws during the MergeNode of push(e), the call
\* returns with the new node freed and unreachable, size() unchanged and the
\* store, hence every node and link of every tree, exactly as before the call.
C12_PushFailureNoEffect ==
  [][(last'.op = "push" /\ last'.exc = "swallowed") => \A h \in Heaps :
       last'.h = h =>
          /\ store' = store
          /\ DOMAIN store' = DOMAIN store
          /\ Reach(store', root'[h]) = Reach(store, root[h])
          /\ Tree(store', root'[h]) = Tree(store, root[h])
          /\ root' = root
          /\ size(h)' = size(h)]_vars

\* a push into a queue of three has been abandoned when the comparator threw
\* on its second call, inside the recursion of MergeNode
C12_Witness ==
  /\ last.op = "push" /\ last.exc = "swallowed" /\ last.val = 1
  /\ size(last.h) = 3

\* C13 as stated: when the comparator throws during the MergeNode of pop(),
\* size() is unchanged and the old root is live but no longer reachable from
\* the queue's root.
C13_PopFailureLeaks ==
  [][(last'.op = "pop" /\ last'.exc = "swallowed") => \A h \in Heaps :
       last'.h = h =>
          /\ size(h)' = size(h)
          /\ root[h] \in DOMAIN store'
          /\ root[h] \notin Reach(store', root'[h])]_vars

\* C13 amended: when the comparator throws during the MergeNode of pop(), the
\* exception is swallowed and the call changes nothing: size() is unchanged,
\* the old root is not freed and is still the queue's root, and the store is
\* exactly as before, so no node is leaked.
C13_PopFailureNoEffect ==
  [][(last'.op = "pop" /\ last'.exc = "swallowed") => \A h \in Heaps :
       last'.h = h =>
          /\ size(h)' = size(h)
          /\ root[h] \in DOMAIN store'
          /\ root'[h] = root[h]
          /\ root[h] \in Reach(store', root'[h])
          /\ store' = store
          /\ root' = root /\ capacity' = capacity
          /\ DOMAIN store' = UNION {Reach(store', root'[g]) : g \in alive}]_vars

\* a pop on a queue of four has been abandoned when the comparator threw
\* while the two subtrees of the root were being merged
C13_Witness ==
  /\ last.op = "pop" /\ last.exc = "swallowed"
  /\ size(last.h) = 4
  /\ Cardinality(Kids(store, root[last.h])) = 2

\* C19: when the comparator throws during A.merge(B) for distinct A and B,
\* both queues keep their roots, trees and sizes and share no node, and the
\* store is exactly as before; and for every number of comparisons after which
\* the comparator can throw, MergeNode on the two roots has changed no node.
C19_FailedMergeNoOp ==
  [][(last'.op = "merge" /\ last'.exc = "swallowed") =>
       \A a \in Heaps : \A b \in Heaps \ {a} :
       (last'.h = a /\ last'.other = b) =>
          /\ store' = store
          /\ root'[a] = root[a] /\ root'[b] = root[b]
          /\ Tree(store', root'[a]) = Tree(store, root[a])
          /\ Tree(store', root'[b]) = Tree(store, root[b])
          /\ size(a)' = size(a) /\ size(b)' = size(b)
          /\ Disjoint(store', root'[a], root'[b])
          /\ \A k \in 0..(Comparisons(store, root[a], root[b]) - 1) :
               LET m == MergeNodeThrows(store, root[a], root[b], k)
               IN m.thrown /\ m.st = store]_vars

\* a merge of two queues that hold four elements together has been abandoned
\* when the comparator threw on its second call
C19_Witness ==
  /\ last.op = "merge" /\ last.exc = "swallowed" /\ last.val = 1
  /\ last.h # last.other
  /\ root[last.h] # NULL /\ root[last.other] # NULL
  /\ size(last.h) + size(last.other) = 4


\* C15: an assignment A = B with A and B distinct frees exactly the nodes of
\* A's previous tree and none of B's, leaves B as it was, and gives A a tree of
\* its own, of nodes that no surviving node occupies, holding B's values, with
\* A.size() = B.size(); when B is empty A ends with a null root and size 0. A
\* self-assignment changes neither the store nor any root or size.
C15_AssignmentFrees ==
  [][last'.op = "assign" => \A a \in Heaps, b \in Heaps :
       (last'.h = a /\ last'.other = b) =>
          IF a = b
            THEN UNCHANGED <<store, root, capacity, alive>>
            ELSE LET old == Reach(store, root[a])
                     src == Reach(store, root[b])
                     new == Reach(store', root'[a])
                     cleared == ClearNode(store, root[a])
                 IN /\ DOMAIN cleared = DOMAIN store \ old
                    /\ src \subseteq DOMAIN cleared
                    /\ DOMAIN store' = (DOMAIN store \ old) \cup new
                    /\ new \cap (DOMAIN store \ old) = {}
                    /\ Cardinality(new) = Cardinality(src)
                    /\ IsTree(store', root'[a])
                    /\ Held(store', root'[a]) = Held(store, root[b])
                    /\ root'[b] = root[b]
                    /\ Tree(store', root'[b]) = Tree(store, root[b])
                    /\ size(a)' = size(b) /\ size(b)' = size(b)
                    /\ root[b] = NULL => (root'[a] = NULL /\ size(a)' = 0)]_vars

\* an assignment between distinct queues has just returned: each queue holds
\* two elements in a tree of its own and no other node is live
C15_Witness ==
  /\ last.op = "assign" /\ last.h # last.other
  /\ size(last.h) = 2 /\ size(last.other) = 2
  /\ Disjoint(store, root[last.h], root[last.other])
  /\ DOMAIN store = Reach(store, root[last.h]) \cup Reach(store, root[last.other])
  /\ Cardinality(DOMAIN store) = 4

\* a self-assignment of a queue of two has just returned
C15_WitnessSelf ==
  /\ last.op = "assign" /\ last.h = last.other
  /\ size(last.h) = 2

\* an assignment from an empty queue has just returned
C15_WitnessEmpty ==
  /\ last.op = "assign" /\ last.h # last.other
  /\ root[last.other] = NULL /\ root[last.h] = NULL
  /\ size(last.h) = 0 /\ size(last.other) = 0


\* C18: after A.merge(A) the nodes reachable from A.root are the nodes that
\* were reachable before, they form a tree, and A.size() is their number and
\* is what it was before the call.
C18_SelfMergePreserves ==
  [][(last'.op = "merge" /\ last'.h = last'.other) => \A h \in Heaps :
       last'.h = h =>
          /\ Reach(store', root'[h]) = Reach(store, root[h])
          /\ IsTree(store', root'[h])
          /\ size(h)' = Cardinality(Reach(store', root'[h]))
          /\ size(h)' = size(h)]_vars


\* C14: a copy construction from a queue whose root is null gives a queue
\* with a null root and size() 0, for which empty() holds.
C14_CloneOfAbsent ==
  [][(last'.op = "copy" /\ root[last'.other] = NULL) => \A h \in Heaps :
       last'.h = h =>
          /\ root'[h] = NULL
          /\ size(h)' = 0
          /\ empty(h)']_vars

\* C20: a queue built by priority_queue(_root, _capacity) from a pointer to a
\* tree, with _capacity the number of nodes under _root or left at its
\* default, has as size() the
\* number of nodes under its root, is empty() exactly when its root is null,
\* and owns a tree of its own that holds the values of the tree at _root.
C20_NodeConstructorConsistent ==
  [][last'.op = "nodes" => \A h \in Heaps, p \in Nodes :
       (last'.h = h /\ last'.val = p) =>
          /\ size(h)' = Cardinality(Reach(store', root'[h]))
          /\ empty(h)' <=> (root'[h] = NULL)
          /\ IsTree(store', root'[h])
          /\ Disjoint(store', root'[h], p)
          /\ Held(store', root'[h]) = Held(store, p)
          /\ Tree(store', p) = Tree(store, p)]_vars


\* C17: every call of push, pop, merge (of a queue with another or with
\* itself) and operator= (ClearNode, then copy) that has begun returns.
C17_Termination == (stack # << >>) ~> (stack = << >>)


\* a merge of a queue with itself is in progress, MergeNode three calls deep
C17_Witness ==
  /\ Len(stack) >= 4
  /\ stack[1].fn = "merge"
  /\ stack[1].h = stack[1].other
  /\ \A i \in 2..Len(stack) : stack[i].fn = "MergeNode"

====
